---- MODULE Spec2Model ----
(***************************************************************************)
(* FriColl time tracking (src/index.tsx): the entry collection, the split *)
(* index, the id counter and the edit form of the App component, with the *)
(* pure helpers (time arithmetic, splitter, merger) as operators.          *)
(*                                                                         *)
(* Representation.  A time string "HH:MM" is the pair <<h, m>> of its two  *)
(* numeric fields (padStart(2,'0') is a bijection on 0..99); an absent or  *)
(* empty string is Empty.  A date string is a day number.  The SplitEntry  *)
(* id `${id1}-${id2}` is the pair <<id1, id2>>.  An optional value is a    *)
(* sequence of length 0 or 1.                                              *)
(***************************************************************************)
EXTENDS Integers, Sequences, FiniteSets, TLC

VARIABLES
    eintraege,       \* useState<Eintrag[]>: the entry collection
    splits,          \* useState<SplitEntry[]>: the split index
    NEXT_ID,         \* module-level id counter
    editingEntryId,  \* useState<number | null>; null is 0
    editMode,        \* 'none' | 'start' | 'ende'
    editingValue,    \* pending value of the edit form: editingStart in mode
                     \* 'start', editingEnde in mode 'ende'
    lastOp,          \* history: the handler that last ran on the data and
                     \* the branch it took
    probe,           \* the splitter and merger applied to one candidate
                     \* (used by PureSpec alone)
    utcOffset,       \* environment: the device's offset from UTC, in hours
    persisted,       \* AsyncStorage: the values under the two storage keys
    writes,          \* history: the setItem calls of the handler that last
                     \* ran on the data, in order
    pending          \* handlers suspended at an await, with what they will
                     \* do when the write they wait for has settled

vars == <<eintraege, splits, NEXT_ID, editingEntryId, editMode,
          editingValue, lastOp, probe, utcOffset, persisted, writes, pending>>

(***************************************************************************)
(* Bounds of the model                                                     *)
(***************************************************************************)
MaxId == 6
MaxEntries == 2
\* Steps of one hold of a SpoolButton: long enough to run through a day.
HoldSteps == 288
MaxIdWide == 9
MaxEntriesWide == 4
MaxIdLoaded == 9
MaxEntriesLoaded == 4
MaxIdStore == 4
MaxEntriesStore == 2
MaxIdAsync == 4
MaxEntriesAsync == 3
MaxPending == 2
\* The totals handed to minutesToTime: from below 0 to beyond the day.
MaxBelow == 10
MaxTotal == 1460

\* let NEXT_ID = Date.now(): the epoch the counter starts from; the first id
\* issued is SeedId + 1.
SeedId == 0

Empty == <<>>
NoId == 0

\* The two useState fields of the form.  The code keeps the field of the
\* other mode at its last value until resetEditState clears it; that value
\* is never read (lines 562-566, 598-601, 867 and 873-886 read only the field
\* of the current mode, and startEditing overwrites it on entering the
\* mode), so the state keeps the field of the current mode alone.
editingStart == IF editMode = "start" THEN editingValue ELSE Empty
editingEnde == IF editMode = "ende" THEN editingValue ELSE Empty

Min(a, b) == IF a < b THEN a ELSE b
Max(a, b) == IF a > b THEN a ELSE b

(***************************************************************************)
(* Time values                                                             *)
(***************************************************************************)
LastSlot == 23 * 60 + 55
Step == 5

T2400 == <<24, 0>>
T0000 == <<0, 0>>
T1200 == <<12, 0>>

timeToMinutes(time) == time[1] * 60 + time[2]

\* Math.round(total / 5) * 5 for total >= 0 (ties round up).
\* A clamp to the whole day instead of its last 5-minute slot.
minutesToTimeFullDay(totalIn) ==
    LET total == Max(0, Min(totalIn, 24 * 60))
        rounded == ((2 * total + Step) \div (2 * Step)) * Step
    IN  <<rounded \div 60, rounded % 60>>

minutesToTime(totalIn) ==
    LET total == Max(0, Min(totalIn, LastSlot))
        rounded == ((2 * total + Step) \div (2 * Step)) * Step
    IN  <<rounded \div 60, rounded % 60>>

\* getRoundedNow on a wall clock reading <<hours, minutes>>: a rounding to
\* 60 minutes carries into the hour, and hour 24 is 00 of the next day.
getRoundedNow(clock) ==
    LET roundedMinutes == ((2 * clock[2] + Step) \div (2 * Step)) * Step
    IN  IF roundedMinutes = 60
        THEN <<(clock[1] + 1) % 24, 0>>
        ELSE <<clock[1], roundedMinutes>>

adjustTime(value, deltaMinutes) == minutesToTime(timeToMinutes(value) + deltaMinutes)

\* The wall clock readings the model draws from.
Clock == { <<0, 8>>, <<23, 52>> }

\* new Date().toISOString().split('T')[0]: the day the session runs on.
getTodayDate == 1

(***************************************************************************)
(* Ids                                                                     *)
(***************************************************************************)
\* A counter that hands out the current value without advancing.
generateIdStuck(nid) == nid

\* NEXT_ID += 1; return NEXT_ID  (the new counter is the id returned)
generateId(nid) == nid + 1

(***************************************************************************)
(* Collections                                                             *)
(***************************************************************************)
RECURSIVE InsertDesc(_, _)
InsertDesc(sorted, e) ==
    IF sorted = <<>> THEN <<e>>
    ELSE IF Head(sorted).id >= e.id
         THEN <<Head(sorted)>> \o InsertDesc(Tail(sorted), e)
         ELSE <<e>> \o sorted

\* [...xs].sort((a, b) => b.id - a.id): stable, id descending.
RECURSIVE SortDesc(_)
SortDesc(xs) ==
    IF xs = <<>> THEN <<>>
    ELSE InsertDesc(SortDesc(SubSeq(xs, 1, Len(xs) - 1)), xs[Len(xs)])

Range(seq) == { seq[i] : i \in 1..Len(seq) }
Ids(E) == { E[i].id : i \in 1..Len(E) }

\* Array.prototype.find: the first match, as an optional.
FindEntry(E, id) ==
    LET hit == SelectSeq(E, LAMBDA e : e.id = id)
    IN  IF hit = <<>> THEN <<>> ELSE <<Head(hit)>>

FindSplit(S, id) ==
    LET hit == SelectSeq(S, LAMBDA s : s.firstId = id \/ s.secondId = id)
    IN  IF hit = <<>> THEN <<>> ELSE <<Head(hit)>>

\* A lookup that takes the first open entry of the array.
getOpenEntryInfoFirst(E) ==
    LET openEntries == SelectSeq(E, LAMBDA e : e.ende = Empty)
    IN  IF Len(openEntries) = 0
        THEN [hasOpen |-> FALSE, id |-> NoId]
        ELSE [hasOpen |-> TRUE, id |-> openEntries[1].id]

getOpenEntryInfo(E) ==
    LET openEntries == SelectSeq(E, LAMBDA e : e.ende = Empty)
    IN  IF Len(openEntries) = 0
        THEN [hasOpen |-> FALSE, id |-> NoId]
        ELSE [hasOpen |-> TRUE, id |-> openEntries[Len(openEntries)].id]

\* setEintraege(sortedEintraege) of updateEintraege
updateEintraege(newEintraege) == SortDesc(newEintraege)

\* setSplits(newSplits) of updateSplits
updateSplits(newSplits) == newSplits

(***************************************************************************)
(* Splitter and merger                                                     *)
(***************************************************************************)
SplitEndMin(base) ==
    IF base.ende = T2400 THEN 24 * 60 ELSE timeToMinutes(base.ende)

\* A splitter that never splits.
createEntriesNeverSplit(base, nid) ==
    [entries |-> <<base>>, split |-> <<>>, nextId |-> nid]

\* The split with the second half moved to the following day (the
\* alternative the source leaves commented out at line 201).
createEntriesNextDay(base, nid) ==
    IF base.ende = Empty \/ SplitEndMin(base) >= timeToMinutes(base.start)
    THEN [entries |-> <<base>>, split |-> <<>>, nextId |-> nid]
    ELSE LET id1 == generateId(nid)
             id2 == generateId(id1)
         IN  [entries |-> << [id |-> id1, date |-> base.date,
                              start |-> base.start, ende |-> T2400],
                             [id |-> id2, date |-> base.date + 1,
                              start |-> T0000, ende |-> base.ende] >>,
              split |-> << [id |-> <<id1, id2>>, firstId |-> id1,
                            secondId |-> id2] >>,
              nextId |-> id2]

\* The split with a strict comparison: an end equal to the start splits too.
createEntriesStrict(base, nid) ==
    IF base.ende = Empty \/ SplitEndMin(base) > timeToMinutes(base.start)
    THEN [entries |-> <<base>>, split |-> <<>>, nextId |-> nid]
    ELSE LET id1 == generateId(nid)
             id2 == generateId(id1)
         IN  [entries |-> << [id |-> id1, date |-> base.date,
                              start |-> base.start, ende |-> T2400],
                             [id |-> id2, date |-> base.date,
                              start |-> T0000, ende |-> base.ende] >>,
              split |-> << [id |-> <<id1, id2>>, firstId |-> id1,
                            secondId |-> id2] >>,
              nextId |-> id2]

createEntriesWithOptionalSplit(base, nid) ==
    IF base.ende = Empty
    THEN [entries |-> <<base>>, split |-> <<>>, nextId |-> nid]
    ELSE IF SplitEndMin(base) >= timeToMinutes(base.start)
            /\ SplitEndMin(base) <= 24 * 60
    THEN [entries |-> <<base>>, split |-> <<>>, nextId |-> nid]
    ELSE LET id1 == generateId(nid)
             id2 == generateId(id1)
             first == [id |-> id1, date |-> base.date,
                       start |-> base.start, ende |-> T2400]
             second == [id |-> id2, date |-> base.date,
                        start |-> T0000, ende |-> base.ende]
             split == [id |-> <<id1, id2>>, firstId |-> id1, secondId |-> id2]
         IN  [entries |-> <<first, second>>, split |-> <<split>>, nextId |-> id2]

\* A merge that keeps the id of the first half.
buildBaseKeepsId(first, second, nid) ==
    [id |-> first.id, date |-> first.date,
     start |-> first.start, ende |-> second.ende]

\* A merge that takes the end of the first half.
buildBaseFromFirst(first, second, nid) ==
    [id |-> generateId(nid), date |-> first.date,
     start |-> first.start, ende |-> first.ende]

buildBaseFromSplit(first, second, nid) ==
    [id |-> generateId(nid), date |-> first.date,
     start |-> first.start, ende |-> second.ende]

(***************************************************************************)
(* Durations                                                               *)
(***************************************************************************)
getDurationMinutes(start, ende) ==
    IF ende = Empty THEN 0
    ELSE LET startMin == timeToMinutes(start)
             endMin == IF ende = T2400 THEN 24 * 60 ELSE timeToMinutes(ende)
         IN  Max(0, endMin - startMin)

\* The placeholder shown in place of a duration.
Dash == "-"

\* A duration that shows 00:00 for an end equal to the start.
getDurationShowsZero(start, ende) ==
    IF ende = Empty THEN Dash
    ELSE LET diffMinutes == getDurationMinutes(start, ende)
         IN  IF diffMinutes < 0 THEN Dash
             ELSE <<diffMinutes \div 60, diffMinutes % 60>>

getDuration(start, ende) ==
    IF ende = Empty THEN Dash
    ELSE LET diffMinutes == getDurationMinutes(start, ende)
         IN  IF diffMinutes <= 0 THEN Dash
             ELSE <<diffMinutes \div 60, diffMinutes % 60>>

(***************************************************************************)
(* Derived date                                                            *)
(***************************************************************************)
\* Instants are hours since the UTC midnight that starts day 0.
\* new Date(date + 'T00:00:00'): a date-time without offset is local time.
LocalMidnight(date, offset) == date * 24 - offset

\* toISOString().split('T')[0]: the UTC day of an instant.
IsoDate(instant) == instant \div 24

\* date.setDate(date.getDate() + n) moves the local calendar day.
AddLocalDays(instant, n) == instant + n * 24

getAdjustedDateForEntry(entry, S, offset) ==
    LET split == FindSplit(S, entry.id)
    IN  IF split = <<>> THEN entry.date
        ELSE IF split[1].secondId = entry.id
        THEN IsoDate(AddLocalDays(LocalMidnight(entry.date, offset), 2))
        ELSE entry.date

uniqueDates(E, S, offset) ==
    { getAdjustedDateForEntry(E[i], S, offset) : i \in 1..Len(E) }

(***************************************************************************)
(* Handlers, as functions of the state they read.  Each yields the values  *)
(* handed to setEintraege / setSplits and the id counter afterwards.       *)
(***************************************************************************)
\* Both branches of handleAddStart (with and without the confirmation
\* dialog) append the same record.
\* A start that takes the place of the entries still open.
handleAddStartReplacesOpen(E, nid, date, now) ==
    LET id == generateId(nid)
        closed == SelectSeq(E, LAMBDA e : e.ende # Empty)
    IN  [eintraege |-> updateEintraege(
             Append(closed, [id |-> id, date |-> date,
                             start |-> now, ende |-> Empty])),
         nextId |-> id]

handleAddStart(E, nid, date, now) ==
    LET id == generateId(nid)
        newEintraege == Append(E, [id |-> id, date |-> date,
                                   start |-> now, ende |-> Empty])
    IN  [eintraege |-> updateEintraege(newEintraege), nextId |-> id]

\* Closing the open entry in place, without the splitter.
handleAddEndeInPlace(E, S, nid, now) ==
    LET info == getOpenEntryInfo(E)
    IN  [eintraege |-> updateEintraege(
             [i \in 1..Len(E) |->
                 IF info.hasOpen /\ E[i].id = info.id
                 THEN [E[i] EXCEPT !.ende = now] ELSE E[i]]),
         splits |-> S, nextId |-> nid]

handleAddEnde(E, S, nid, now) ==
    LET info == getOpenEntryInfo(E)
        found == FindEntry(E, info.id)
    IN  IF ~info.hasOpen \/ info.id = NoId \/ found = <<>>
        THEN [eintraege |-> E, splits |-> S, nextId |-> nid]
        ELSE LET openEntry == found[1]
                 base == [openEntry EXCEPT !.ende = now]
                 res == createEntriesWithOptionalSplit(base, nid)
                 kept == SelectSeq(E, LAMBDA e : e.id # openEntry.id)
                 keptSplits == SelectSeq(S, LAMBDA s :
                                   s.firstId # openEntry.id
                                   /\ s.secondId # openEntry.id)
             IN  [eintraege |-> updateEintraege(kept \o res.entries),
                  splits |-> updateSplits(keptSplits \o res.split),
                  nextId |-> res.nextId]

\* A backfill whose end lies before its start, stored as it is.
handleAddFixedCrossing(E, nid, date) ==
    LET id == generateId(nid)
        newEintrag == [id |-> id, date |-> date, start |-> T1200, ende |-> T0000]
    IN  [eintraege |-> updateEintraege(Append(E, newEintrag)), nextId |-> id]

handleAddFixedNoonEntry(E, nid, date) ==
    LET id == generateId(nid)
        newEintrag == [id |-> id, date |-> date, start |-> T1200, ende |-> T1200]
    IN  [eintraege |-> updateEintraege(Append(E, newEintrag)), nextId |-> id]

\* base.start = editingStart or base.ende = editingEnde
ApplyEdit(base, mode, es, ee) ==
    IF mode = "start" THEN [base EXCEPT !.start = es]
    ELSE [base EXCEPT !.ende = ee]

\* A fallback that replaces the entry but leaves its pair recorded.
SaveEditFallbackKeepsSplit(E, S, nid, original, existingSplit, mode, es, ee) ==
    LET kept == SelectSeq(E, LAMBDA e : e.id # original.id)
        id == generateId(nid)
        base == ApplyEdit([original EXCEPT !.id = id], mode, es, ee)
        res == createEntriesWithOptionalSplit(base, id)
    IN  [eintraege |-> updateEintraege(kept \o res.entries),
         splits |-> updateSplits(S \o res.split),
         nextId |-> res.nextId, reset |-> TRUE]

\* handleSaveEdit, lines 584-614: a pair is recorded but one half is missing.
SaveEditFallback(E, S, nid, original, existingSplit, mode, es, ee) ==
    LET kept == SelectSeq(E, LAMBDA e : e.id # original.id)
        keptSplits == SelectSeq(S, LAMBDA s : s.id # existingSplit.id)
        id == generateId(nid)
        base == ApplyEdit([original EXCEPT !.id = id], mode, es, ee)
        res == createEntriesWithOptionalSplit(base, id)
    IN  [eintraege |-> updateEintraege(kept \o res.entries),
         splits |-> updateSplits(keptSplits \o res.split),
         nextId |-> res.nextId, reset |-> TRUE]

\* An edit of a pair that drops the two halves but leaves the pair recorded.
SaveEditPairKeepsSplit(E, S, nid, first, second, existingSplit, mode, es, ee) ==
    LET kept == SelectSeq(E, LAMBDA e : e.id # existingSplit.firstId
                                        /\ e.id # existingSplit.secondId)
        id == generateId(nid)
        base == ApplyEdit([id |-> id, date |-> first.date, start |-> first.start,
                           ende |-> second.ende], mode, es, ee)
        res == createEntriesWithOptionalSplit(base, id)
    IN  [eintraege |-> updateEintraege(kept \o res.entries),
         splits |-> updateSplits(S \o res.split),
         nextId |-> res.nextId, reset |-> TRUE]

\* An edit of a pair that rebuilds from the first half alone.
SaveEditPairFirstOnly(E, S, nid, first, second, existingSplit, mode, es, ee) ==
    LET kept == SelectSeq(E, LAMBDA e : e.id # existingSplit.firstId
                                        /\ e.id # existingSplit.secondId)
        keptSplits == SelectSeq(S, LAMBDA s : s.id # existingSplit.id)
        id == generateId(nid)
        base == ApplyEdit([first EXCEPT !.id = id], mode, es, ee)
        res == createEntriesWithOptionalSplit(base, id)
    IN  [eintraege |-> updateEintraege(kept \o res.entries),
         splits |-> updateSplits(keptSplits \o res.split),
         nextId |-> res.nextId, reset |-> TRUE]

\* handleSaveEdit, lines 616-641: both halves of the pair are present.
SaveEditPair(E, S, nid, first, second, existingSplit, mode, es, ee) ==
    LET kept == SelectSeq(E, LAMBDA e : e.id # existingSplit.firstId
                                        /\ e.id # existingSplit.secondId)
        keptSplits == SelectSeq(S, LAMBDA s : s.id # existingSplit.id)
        merged == buildBaseFromSplit(first, second, nid)
        base == ApplyEdit(merged, mode, es, ee)
        res == createEntriesWithOptionalSplit(base, merged.id)
    IN  [eintraege |-> updateEintraege(kept \o res.entries),
         splits |-> updateSplits(keptSplits \o res.split),
         nextId |-> res.nextId, reset |-> TRUE]

\* An edit that overwrites the field in place, without the splitter.
SaveEditSingleInPlace(E, S, nid, original, mode, es, ee) ==
    [eintraege |-> updateEintraege(
         [i \in 1..Len(E) |->
             IF E[i].id = original.id
             THEN ApplyEdit(E[i], mode, es, ee) ELSE E[i]]),
     splits |-> S, nextId |-> nid, reset |-> TRUE]

\* handleSaveEdit, lines 644-668: the entry is in no pair.
SaveEditSingle(E, S, nid, original, mode, es, ee) ==
    LET kept == SelectSeq(E, LAMBDA e : e.id # original.id)
        id == generateId(nid)
        base == ApplyEdit([original EXCEPT !.id = id], mode, es, ee)
        res == createEntriesWithOptionalSplit(base, id)
    IN  [eintraege |-> updateEintraege(kept \o res.entries),
         splits |-> updateSplits(S \o res.split),
         nextId |-> res.nextId, reset |-> TRUE]

\* The branches of handleSaveEdit once the entry is found.
\* (lines 577-668)
SaveEditFound(E, S, nid, original, mode, es, ee) ==
    LET existingSplit == FindSplit(S, original.id)
    IN  IF existingSplit # <<>>
        THEN LET first == FindEntry(E, existingSplit[1].firstId)
                 second == FindEntry(E, existingSplit[1].secondId)
             IN  IF first = <<>> \/ second = <<>>
                 THEN SaveEditFallback(E, S, nid, original,
                                       existingSplit[1], mode, es, ee)
                 ELSE SaveEditPair(E, S, nid, first[1], second[1],
                                   existingSplit[1], mode, es, ee)
        ELSE SaveEditSingle(E, S, nid, original, mode, es, ee)

\* A save that checks the start field alone for emptiness.
handleSaveEditChecksStartOnly(E, S, nid, eid, mode, es, ee) ==
    LET unchanged == [eintraege |-> E, splits |-> S, nextId |-> nid]
        original == FindEntry(E, eid)
    IN  IF eid = NoId
        THEN unchanged @@ [reset |-> FALSE]
        ELSE IF mode = "start" /\ es = Empty
        THEN unchanged @@ [reset |-> FALSE]
        ELSE IF original = <<>>
        THEN unchanged @@ [reset |-> TRUE]
        ELSE SaveEditFound(E, S, nid, original[1], mode, es, ee)

\* A save that draws the new id before it looks for the entry.
handleSaveEditDrawsIdFirst(E, S, nid, eid, mode, es, ee) ==
    LET unchanged == [eintraege |-> E, splits |-> S, nextId |-> nid]
        original == FindEntry(E, eid)
    IN  IF eid = NoId
        THEN unchanged @@ [reset |-> FALSE]
        ELSE IF mode = "start" /\ es = Empty
        THEN unchanged @@ [reset |-> FALSE]
        ELSE IF mode = "ende" /\ ee = Empty
        THEN unchanged @@ [reset |-> FALSE]
        ELSE IF original = <<>>
        THEN [eintraege |-> E, splits |-> S, nextId |-> generateId(nid),
              reset |-> TRUE]
        ELSE SaveEditFound(E, S, nid, original[1], mode, es, ee)

handleSaveEdit(E, S, nid, eid, mode, es, ee) ==
    LET unchanged == [eintraege |-> E, splits |-> S, nextId |-> nid]
        original == FindEntry(E, eid)
    IN  IF eid = NoId
        THEN unchanged @@ [reset |-> FALSE]
        ELSE IF mode = "start" /\ es = Empty
        THEN unchanged @@ [reset |-> FALSE]
        ELSE IF mode = "ende" /\ ee = Empty
        THEN unchanged @@ [reset |-> FALSE]
        ELSE IF original = <<>>
        THEN unchanged @@ [reset |-> TRUE]
        ELSE SaveEditFound(E, S, nid, original[1], mode, es, ee)

\* A delete that removes the one entry and nothing else.
handleDeleteEntryAlone(E, S, id) ==
    [eintraege |-> updateEintraege(SelectSeq(E, LAMBDA e : e.id # id)),
     splits |-> updateSplits(S)]

\* The onPress of the 'Löschen' button of handleDeleteEntry.
\* A delete that matches the rows of the entry's date instead of its id.
handleDeleteEntryByDate(E, S, id) ==
    LET hit == FindEntry(E, id)
        gone == { e.id : e \in { x \in Range(E) : hit # <<>> /\ x.date = hit[1].date } }
    IN  [eintraege |-> updateEintraege(SelectSeq(E, LAMBDA e : e.id \notin gone)),
         splits |-> updateSplits(SelectSeq(S, LAMBDA s :
                                   s.firstId \notin gone /\ s.secondId \notin gone))]

handleDeleteEntry(E, S, id) ==
    LET relatedSplit == FindSplit(S, id)
    IN  IF relatedSplit # <<>>
        THEN [eintraege |-> updateEintraege(SelectSeq(E, LAMBDA e :
                                e.id # relatedSplit[1].firstId
                                /\ e.id # relatedSplit[1].secondId)),
              splits |-> updateSplits(SelectSeq(S, LAMBDA s :
                                s.id # relatedSplit[1].id))]
        ELSE [eintraege |-> updateEintraege(SelectSeq(E, LAMBDA e : e.id # id)),
              splits |-> updateSplits(S)]

\* A form that always opens on the current time.
SeedValueFromClock(E, id, mode, now) == now

\* startEditing: the value the form is seeded with.
SeedValue(E, id, mode, now) ==
    LET entry == FindEntry(E, id)
        field == IF entry = <<>> THEN Empty
                 ELSE IF mode = "start" THEN entry[1].start ELSE entry[1].ende
    IN  IF field = Empty THEN now ELSE field

\* onStep of a SpoolButton, fired n times while the button is held.  The n
\* calls are composed in two halves, each half evaluated to a value before
\* it is passed on, which keeps the evaluation shallow.
RECURSIVE Spool(_, _, _)
Spool(prev, delta, n) ==
    IF n = 0 THEN prev
    ELSE IF n = 1 THEN adjustTime(IF prev = Empty THEN T0000 ELSE prev, delta)
    ELSE CHOOSE r \in { Spool(half, delta, n - n \div 2) :
                           half \in { Spool(prev, delta, n \div 2) } } : TRUE

\* The times of the 5-minute grid, with the end-of-day sentinel.
Grid == { <<h, m * Step>> : h \in 0..23, m \in 0..11 } \cup { T2400 }

\* A hold of HoldSteps steps from every time of the grid, tabulated once.
Held == [t \in Grid, delta \in {-Step, Step} |-> Spool(t, delta, HoldSteps)]

Hold(prev, delta) == Held[IF prev = Empty THEN T0000 ELSE prev, delta]

(***************************************************************************)
(* State machine                                                           *)
(***************************************************************************)
\* The branch a handler takes, for the history variable.
SplitTag(res) == IF res.split # <<>> THEN "split" ELSE "single"

AddEndeTag(E, S, nid, now) ==
    LET info == getOpenEntryInfo(E)
    IN  IF ~info.hasOpen THEN "addEnde:none"
        ELSE IF Len(handleAddEnde(E, S, nid, now).eintraege) > Len(E)
        THEN "addEnde:split" ELSE "addEnde:single"

SaveTag(E, S, eid, mode, es, ee, r) ==
    IF ~r.reset THEN "save:invalid"
    ELSE IF FindEntry(E, eid) = <<>> THEN "save:missing"
    ELSE LET existingSplit == FindSplit(S, eid)
             kind == IF existingSplit = <<>> THEN "save:single"
                     ELSE IF FindEntry(E, existingSplit[1].firstId) = <<>>
                             \/ FindEntry(E, existingSplit[1].secondId) = <<>>
                     THEN "save:fallback"
                     ELSE "save:pair"
         IN  IF Len(r.splits) > Len(S) - (IF existingSplit = <<>> THEN 0 ELSE 1)
             THEN kind \o ":split" ELSE kind \o ":single"

\* The device's time zone: Greenwich, or one hour east of it.
UtcOffsets == { 0, 1 }

\* loadEintraege / loadSplits on a key that was never written: [].
EmptyStore == [eintraege |-> <<>>, splits |-> <<>>]

KeyEintraege == "eintraege"

KeySplits == "splits"

\* saveEintraege / saveSplits: setItem stores the value, or throws and the
\* catch logs the error and the stored value stays.
saveEintraege(store, value, ok) ==
    IF ok THEN [store EXCEPT !.eintraege = value] ELSE store

saveSplits(store, value, ok) ==
    IF ok THEN [store EXCEPT !.splits = value] ELSE store

\* An error that leaves the save function.
saveRethrows(ok) == ~ok

\* Whether saveEintraege / saveSplits throws to its caller when setItem
\* throws: the catch block logs the error and returns.
saveThrows(ok) == FALSE

\* The setItem calls of each handler, by the branch it takes.
handleAddEndeWrites(E) ==
    LET info == getOpenEntryInfo(E)
    IN  IF ~info.hasOpen \/ info.id = NoId \/ FindEntry(E, info.id) = <<>>
        THEN <<>> ELSE <<KeyEintraege, KeySplits>>

handleSaveEditWrites(E, eid, mode, es, ee) ==
    IF eid = NoId THEN <<>>
    ELSE IF mode = "start" /\ es = Empty THEN <<>>
    ELSE IF mode = "ende" /\ ee = Empty THEN <<>>
    ELSE IF FindEntry(E, eid) = <<>> THEN <<>>
    ELSE <<KeyEintraege, KeySplits>>

NoProbe == [stage |-> "none", base |-> <<>>, out |-> <<>>, merged |-> <<>>,
            again |-> <<>>]

Init ==
    /\ eintraege = <<>>
    /\ splits = <<>>
    /\ NEXT_ID = SeedId
    /\ editingEntryId = NoId
    /\ editMode = "none"
    /\ editingValue = Empty
    /\ lastOp = "init"
    /\ probe = NoProbe
    /\ utcOffset \in UtcOffsets
    /\ persisted = EmptyStore
    /\ writes = <<>>
    /\ pending = <<>>

editVars == <<editingEntryId, editMode, editingValue>>

ioVars == <<persisted, writes>>

envVars == <<utcOffset, pending>>

\* The handler of this step issued the setItem calls `keys`, of which those
\* in `failed` threw: the new collections reach the store under the keys
\* written with success.
Persist(keys, failed) ==
    LET has(k) == \E i \in 1..Len(keys) : keys[i] = k
        afterE == saveEintraege(persisted, eintraege',
                                has(KeyEintraege) /\ KeyEintraege \notin failed)
    IN  /\ persisted' = saveSplits(afterE, splits',
                                   has(KeySplits) /\ KeySplits \notin failed)
        /\ writes' = [i \in 1..Len(keys) |->
                         [key |-> keys[i], ok |-> keys[i] \notin failed]]

\* The model explores the states with at most maxEntries entries and ids
\* up to maxId.
Capped(maxId, maxEntries) ==
    /\ NEXT_ID' <= maxId
    /\ Len(eintraege') <= maxEntries

AddStartAt(clock) ==
    LET r == handleAddStart(eintraege, NEXT_ID, getTodayDate, getRoundedNow(clock))
    IN  /\ eintraege' = r.eintraege
        /\ NEXT_ID' = r.nextId
        /\ lastOp' = "addStart"
        /\ UNCHANGED <<splits, editVars, probe>>

AddEndeAt(clock) ==
    LET r == handleAddEnde(eintraege, splits, NEXT_ID, getRoundedNow(clock))
    IN  /\ eintraege' = r.eintraege
        /\ splits' = r.splits
        /\ NEXT_ID' = r.nextId
        /\ lastOp' = AddEndeTag(eintraege, splits, NEXT_ID, getRoundedNow(clock))
        /\ UNCHANGED <<editVars, probe>>

AddFixedOn(date) ==
    LET r == handleAddFixedNoonEntry(eintraege, NEXT_ID, date)
    IN  /\ eintraege' = r.eintraege
        /\ NEXT_ID' = r.nextId
        /\ lastOp' = "addFixed"
        /\ UNCHANGED <<splits, editVars, probe>>

resetEditState ==
    /\ editingEntryId' = NoId
    /\ editMode' = "none"
    /\ editingValue' = Empty

StartEditingOf(id, mode, clock) ==
    /\ editingEntryId' = id
    /\ editMode' = mode
    /\ editingValue' = SeedValue(eintraege, id, mode, getRoundedNow(clock))
    /\ UNCHANGED <<eintraege, splits, NEXT_ID, lastOp, probe>>

SpoolBy(delta) ==
    /\ editingEntryId # NoId
    /\ editingValue' = IF editMode = "start"
                       THEN Hold(editingStart, delta)
                       ELSE Hold(editingEnde, delta)
    /\ UNCHANGED <<eintraege, splits, NEXT_ID, editingEntryId, editMode,
                   lastOp, probe>>

SaveEdit ==
    LET r == handleSaveEdit(eintraege, splits, NEXT_ID, editingEntryId,
                            editMode, editingStart, editingEnde)
    IN  /\ editingEntryId # NoId
        /\ eintraege' = r.eintraege
        /\ splits' = r.splits
        /\ NEXT_ID' = r.nextId
        /\ IF r.reset THEN resetEditState ELSE UNCHANGED editVars
        /\ lastOp' = SaveTag(eintraege, splits, editingEntryId, editMode,
                             editingStart, editingEnde, r)
        /\ UNCHANGED probe

DeleteOf(id) ==
    LET r == handleDeleteEntry(eintraege, splits, id)
    IN  /\ eintraege' = r.eintraege
        /\ splits' = r.splits
        /\ IF editingEntryId = id THEN resetEditState ELSE UNCHANGED editVars
        /\ lastOp' = IF FindSplit(splits, id) # <<>> THEN "delete:pair"
                     ELSE "delete:single"
        /\ UNCHANGED <<NEXT_ID, probe>>

\* The clock readings that seed the form: read only when the entry has no
\* value in the field.
SeedClocks(id, mode, clocks) ==
    IF mode = "ende" /\ FindEntry(eintraege, id)[1].ende = Empty
    THEN clocks ELSE { CHOOSE c \in clocks : TRUE }

(***************************************************************************)
(* Spec: every handler, on every input of the model                        *)
(***************************************************************************)
HandleAddStart ==
    /\ \E clock \in Clock : AddStartAt(clock) /\ Capped(MaxId, MaxEntries)
    /\ Persist(<<KeyEintraege>>, {})
    /\ UNCHANGED envVars

HandleAddEnde ==
    /\ \E clock \in Clock : AddEndeAt(clock) /\ Capped(MaxId, MaxEntries)
    /\ Persist(handleAddEndeWrites(eintraege), {})
    /\ UNCHANGED envVars

\* The 'Nachtrag' button sits in the section of a displayed date.
HandleAddFixedNoonEntry ==
    /\ \E date \in uniqueDates(eintraege, splits, utcOffset) :
          AddFixedOn(date) /\ Capped(MaxId, MaxEntries)
    /\ Persist(<<KeyEintraege>>, {})
    /\ UNCHANGED envVars

\* The start and end cells of the rows on display call startEditing.
StartEditing ==
    /\ \E id \in Ids(eintraege), mode \in {"start", "ende"} :
          \E clock \in SeedClocks(id, mode, Clock) : StartEditingOf(id, mode, clock)
    /\ UNCHANGED <<ioVars, envVars>>

SpoolStep ==
    /\ \E delta \in {-Step, Step} : SpoolBy(delta)
    /\ UNCHANGED <<ioVars, envVars>>

SaveEditWrites ==
    handleSaveEditWrites(eintraege, editingEntryId, editMode,
                         editingStart, editingEnde)

HandleSaveEdit ==
    /\ SaveEdit /\ Capped(MaxId, MaxEntries)
    /\ Persist(SaveEditWrites, {})
    /\ UNCHANGED envVars

\* The 'Abbrechen' button of the edit form.
CancelEdit ==
    /\ editingEntryId # NoId
    /\ resetEditState
    /\ UNCHANGED <<eintraege, splits, NEXT_ID, lastOp, probe, ioVars, envVars>>

\* The delete button of a row on display, confirmed in the dialog.
HandleDeleteEntry ==
    /\ \E id \in Ids(eintraege) : DeleteOf(id)
    /\ Persist(<<KeyEintraege, KeySplits>>, {})
    /\ UNCHANGED envVars

Next ==
    \/ HandleAddStart
    \/ HandleAddEnde
    \/ HandleAddFixedNoonEntry
    \/ StartEditing
    \/ SpoolStep
    \/ HandleSaveEdit
    \/ CancelEdit
    \/ HandleDeleteEntry

Spec == Init /\ [][Next]_vars

(***************************************************************************)
(* SpecWide: the night-shift use (start before midnight, end after it)     *)
(* with room for two pairs                                                 *)
(***************************************************************************)
LateClock == <<23, 52>>

EarlyClock == <<0, 8>>

\* The 'Start' button is on display only while no entry is open.
WideAddStart ==
    /\ ~getOpenEntryInfo(eintraege).hasOpen
    /\ AddStartAt(LateClock)
    /\ Capped(MaxIdWide, MaxEntriesWide)
    /\ Persist(<<KeyEintraege>>, {})
    /\ UNCHANGED envVars

WideAddEnde ==
    /\ AddEndeAt(EarlyClock) /\ Capped(MaxIdWide, MaxEntriesWide)
    /\ Persist(handleAddEndeWrites(eintraege), {})
    /\ UNCHANGED envVars

\* The start cell of a row on display.
WideStartEditing ==
    /\ \E id \in Ids(eintraege) : StartEditingOf(id, "start", EarlyClock)
    /\ UNCHANGED <<ioVars, envVars>>

WideSpoolStep ==
    /\ \E delta \in {-Step, Step} : SpoolBy(delta)
    /\ UNCHANGED <<ioVars, envVars>>

WideSaveEdit ==
    /\ SaveEdit /\ Capped(MaxIdWide, MaxEntriesWide)
    /\ Persist(SaveEditWrites, {})
    /\ UNCHANGED envVars

WideDeleteEntry ==
    /\ \E id \in Ids(eintraege) : DeleteOf(id)
    /\ Persist(<<KeyEintraege, KeySplits>>, {})
    /\ UNCHANGED envVars

WideNext ==
    \/ WideAddStart
    \/ WideAddEnde
    \/ WideStartEditing
    \/ WideSpoolStep
    \/ WideSaveEdit
    \/ WideDeleteEntry

SpecWide == Init /\ [][WideNext]_vars

(***************************************************************************)
(* PureSpec: the splitter and the merger on every candidate of the grid    *)
(***************************************************************************)
\* A candidate: an entry issued earlier (its id is the counter's value), a
\* start on the grid, and no end or an end on the grid or the sentinel.
Candidates ==
    { [id |-> SeedId + 1, date |-> getTodayDate, start |-> st, ende |-> en] :
        st \in Grid \ { T2400 }, en \in Grid \cup { Empty } }

PureInit ==
    /\ eintraege = <<>>
    /\ splits = <<>>
    /\ NEXT_ID = SeedId + 1
    /\ editingEntryId = NoId
    /\ editMode = "none"
    /\ editingValue = Empty
    /\ lastOp = "init"
    /\ \E c \in Candidates : probe = [NoProbe EXCEPT !.stage = "candidate", !.base = c]
    /\ utcOffset = 0
    /\ persisted = EmptyStore
    /\ writes = <<>>
    /\ pending = <<>>

ApplySplit ==
    /\ probe.stage = "candidate"
    /\ LET res == createEntriesWithOptionalSplit(probe.base, NEXT_ID)
       IN  /\ probe' = [probe EXCEPT !.stage = "split", !.out = res]
           /\ NEXT_ID' = res.nextId
    /\ UNCHANGED <<eintraege, splits, editVars, lastOp, ioVars, envVars>>

ApplyMerge ==
    /\ probe.stage = "split"
    /\ Len(probe.out.entries) = 2
    /\ LET base == buildBaseFromSplit(probe.out.entries[1], probe.out.entries[2], NEXT_ID)
       IN  /\ probe' = [probe EXCEPT !.stage = "merged", !.merged = base]
           /\ NEXT_ID' = base.id
    /\ UNCHANGED <<eintraege, splits, editVars, lastOp, ioVars, envVars>>

ApplySplitAgain ==
    /\ probe.stage = "merged"
    /\ LET res == createEntriesWithOptionalSplit(probe.merged, NEXT_ID)
       IN  /\ probe' = [probe EXCEPT !.stage = "again", !.again = res]
           /\ NEXT_ID' = res.nextId
    /\ UNCHANGED <<eintraege, splits, editVars, lastOp, ioVars, envVars>>

PureNext == ApplySplit \/ ApplyMerge \/ ApplySplitAgain

PureSpec == PureInit /\ [][PureNext]_vars

(***************************************************************************)
(* SpecForm: handleSaveEdit on every content of the edit form, the empty   *)
(* value included.  The form of the app is filled by startEditing and the  *)
(* SpoolButtons alone, which never leave the field of the mode empty; here *)
(* the three state fields handleSaveEdit reads are its inputs.             *)
(***************************************************************************)
FormValues == { Empty, T0000, <<23, 55>> }

FormHolds ==
    /\ \E id \in Ids(eintraege), mode \in {"start", "ende"}, value \in FormValues :
          /\ editingEntryId' = id
          /\ editMode' = mode
          /\ editingValue' = value
    /\ UNCHANGED <<eintraege, splits, NEXT_ID, lastOp, probe, ioVars, envVars>>

FormNext ==
    \/ HandleAddStart
    \/ HandleAddEnde
    \/ FormHolds
    \/ HandleSaveEdit

FormInit == Init /\ utcOffset = 0

SpecForm == FormInit /\ [][FormNext]_vars

(***************************************************************************)
(* SpecLoaded: a session that starts from stored collections.  loadData    *)
(* takes the two keys as they are, sorts the entries and checks nothing:   *)
(* the stored split index may name an entry the stored collection lacks.   *)
(***************************************************************************)
LoadedFirst == [id |-> 3, date |-> 1, start |-> <<23, 50>>, ende |-> T2400]
LoadedSecond == [id |-> 4, date |-> 1, start |-> T0000, ende |-> <<0, 10>>]
LoadedOther == [id |-> 2, date |-> 1, start |-> <<0, 10>>, ende |-> <<23, 50>>]
LoadedPair == [id |-> <<3, 4>>, firstId |-> 3, secondId |-> 4]
LoadedFirstB == [id |-> 5, date |-> 1, start |-> <<23, 50>>, ende |-> T2400]
LoadedSecondB == [id |-> 6, date |-> 1, start |-> T0000, ende |-> <<0, 10>>]
LoadedPairB == [id |-> <<5, 6>>, firstId |-> 5, secondId |-> 6]

\* What AsyncStorage holds under the two keys when the session starts.
Stored ==
    { [eintraege |-> <<LoadedFirst, LoadedOther>>, splits |-> <<LoadedPair>>],
      [eintraege |-> <<LoadedSecond, LoadedOther>>, splits |-> <<LoadedPair>>],
      [eintraege |-> <<LoadedSecond, LoadedFirst>>, splits |-> <<LoadedPair>>],
      [eintraege |-> <<LoadedSecondB, LoadedFirstB, LoadedFirst>>,
       splits |-> <<LoadedPair, LoadedPairB>>] }

\* Date.now() of the new session lies beyond every stored id.
LoadedSeedId == 6

loadData(store) ==
    [eintraege |-> SortDesc(store.eintraege), splits |-> store.splits]

LoadedInit ==
    /\ \E store \in Stored :
          /\ persisted = store
          /\ eintraege = loadData(store).eintraege
          /\ splits = loadData(store).splits
    /\ NEXT_ID = LoadedSeedId
    /\ editingEntryId = NoId
    /\ editMode = "none"
    /\ editingValue = Empty
    /\ lastOp = "init"
    /\ probe = NoProbe
    /\ utcOffset = 0
    /\ writes = <<>>
    /\ pending = <<>>

LoadedSaveEdit ==
    /\ SaveEdit /\ Capped(MaxIdLoaded, MaxEntriesLoaded)
    /\ Persist(SaveEditWrites, {})
    /\ UNCHANGED envVars

LoadedNext ==
    \/ StartEditing
    \/ SpoolStep
    \/ LoadedSaveEdit
    \/ CancelEdit

SpecLoaded == LoadedInit /\ [][LoadedNext]_vars

(***************************************************************************)
(* SpecStore: the handlers over a store whose writes may fail.  A handler  *)
(* whose save function threw would stop there, after the setState call     *)
(* that precedes the write.                                                *)
(***************************************************************************)
StoreCapped == NEXT_ID' <= MaxIdStore /\ Len(eintraege') <= MaxEntriesStore

\* A handler that calls updateEintraege alone.
StoreOneWrite(Full, AfterFirst) ==
    \E failed \in SUBSET { KeyEintraege } :
        IF saveThrows(KeyEintraege \notin failed)
        THEN AfterFirst /\ Persist(<<KeyEintraege>>, failed)
        ELSE Full /\ Persist(<<KeyEintraege>>, failed)

\* A handler that calls updateEintraege, then updateSplits, then (Full)
\* runs to its end.
StoreTwoWrites(Full, AfterFirst, AfterSecond) ==
    \E failed \in SUBSET { KeyEintraege, KeySplits } :
        IF saveThrows(KeyEintraege \notin failed)
        THEN AfterFirst /\ Persist(<<KeyEintraege>>, failed)
        ELSE IF saveThrows(KeySplits \notin failed)
        THEN AfterSecond /\ Persist(<<KeyEintraege, KeySplits>>, failed)
        ELSE Full /\ Persist(<<KeyEintraege, KeySplits>>, failed)

StoreAddStart ==
    /\ ~getOpenEntryInfo(eintraege).hasOpen
    /\ \E clock \in Clock :
          StoreOneWrite(AddStartAt(clock), AddStartAt(clock))
    /\ StoreCapped
    /\ UNCHANGED envVars

StoreAddEnde ==
    /\ handleAddEndeWrites(eintraege) # <<>>
    /\ \E clock \in Clock :
          LET r == handleAddEnde(eintraege, splits, NEXT_ID, getRoundedNow(clock))
              stopped == /\ eintraege' = r.eintraege
                         /\ NEXT_ID' = r.nextId
                         /\ lastOp' = "addEnde:threw"
                         /\ UNCHANGED <<splits, editVars, probe>>
          IN  StoreTwoWrites(AddEndeAt(clock), stopped, AddEndeAt(clock))
    /\ StoreCapped
    /\ UNCHANGED envVars

StoreStartEditing ==
    /\ \E id \in Ids(eintraege) : StartEditingOf(id, "start", EarlyClock)
    /\ UNCHANGED <<ioVars, envVars>>

StoreSaveEdit ==
    /\ SaveEditWrites # <<>>
    /\ LET r == handleSaveEdit(eintraege, splits, NEXT_ID, editingEntryId,
                               editMode, editingStart, editingEnde)
           stopped == /\ eintraege' = r.eintraege
                      /\ NEXT_ID' = r.nextId
                      /\ lastOp' = "save:threw"
                      /\ UNCHANGED <<splits, editVars, probe>>
           unfinished == /\ eintraege' = r.eintraege
                         /\ splits' = r.splits
                         /\ NEXT_ID' = r.nextId
                         /\ lastOp' = "save:threw"
                         /\ UNCHANGED <<editVars, probe>>
       IN  StoreTwoWrites(SaveEdit, stopped, unfinished)
    /\ StoreCapped
    /\ UNCHANGED envVars

StoreDeleteEntry ==
    /\ \E id \in Ids(eintraege) :
          LET r == handleDeleteEntry(eintraege, splits, id)
              stopped == /\ eintraege' = r.eintraege
                         /\ lastOp' = "delete:threw"
                         /\ UNCHANGED <<splits, NEXT_ID, editVars, probe>>
              unfinished == /\ eintraege' = r.eintraege
                            /\ splits' = r.splits
                            /\ lastOp' = "delete:threw"
                            /\ UNCHANGED <<NEXT_ID, editVars, probe>>
          IN  StoreTwoWrites(DeleteOf(id), stopped, unfinished)
    /\ UNCHANGED envVars

StoreNext ==
    \/ StoreAddStart
    \/ StoreAddEnde
    \/ StoreStartEditing
    \/ StoreSaveEdit
    \/ StoreDeleteEntry

StoreInit == Init /\ utcOffset = 0

SpecStore == StoreInit /\ [][StoreNext]_vars

(***************************************************************************)
(* SpecAsync: the handlers as the async functions they are.  A handler     *)
(* runs up to `await updateEintraege(...)`: it has called setEintraege and *)
(* setItem and is suspended until the write settles.  It then goes on with *)
(* the values of the render it was created in: `await updateSplits(...)`,  *)
(* and after that write resetEditState.  While it is suspended the event   *)
(* loop runs the handlers of further presses.                              *)
(***************************************************************************)
\* A handler suspended at `await updateEintraege`: what it will hand to
\* updateSplits, the split index of its render, and whether it resets the
\* edit form at its end.
Suspended(op, newSplits, reset) ==
    [op |-> op, stage |-> "splits", newSplits |-> newSplits,
     seen |-> splits, reset |-> reset]

Suspend(k) ==
    /\ Len(pending) < MaxPending
    /\ pending' = Append(pending, k)

AsyncCapped == NEXT_ID' <= MaxIdAsync /\ Len(eintraege') <= MaxEntriesAsync

\* handleAddStart has nothing left to do after its await.
AsyncAddStart ==
    /\ \E clock \in Clock :
          LET r == handleAddStart(eintraege, NEXT_ID, getTodayDate,
                                  getRoundedNow(clock))
          IN  /\ eintraege' = r.eintraege
              /\ NEXT_ID' = r.nextId
    /\ AsyncCapped
    /\ Persist(<<KeyEintraege>>, {})
    /\ UNCHANGED <<splits, editVars, lastOp, probe, utcOffset, pending>>

AsyncAddEnde ==
    /\ handleAddEndeWrites(eintraege) # <<>>
    /\ \E clock \in Clock :
          LET r == handleAddEnde(eintraege, splits, NEXT_ID, getRoundedNow(clock))
          IN  /\ eintraege' = r.eintraege
              /\ NEXT_ID' = r.nextId
              /\ Suspend(Suspended("handleAddEnde", r.splits, FALSE))
    /\ AsyncCapped
    /\ Persist(<<KeyEintraege>>, {})
    /\ UNCHANGED <<splits, editVars, lastOp, probe, utcOffset>>

AsyncSaveEdit ==
    /\ SaveEditWrites # <<>>
    /\ LET r == handleSaveEdit(eintraege, splits, NEXT_ID, editingEntryId,
                               editMode, editingStart, editingEnde)
       IN  /\ eintraege' = r.eintraege
           /\ NEXT_ID' = r.nextId
           /\ Suspend(Suspended("handleSaveEdit", r.splits, TRUE))
    /\ AsyncCapped
    /\ Persist(<<KeyEintraege>>, {})
    /\ UNCHANGED <<splits, editVars, lastOp, probe, utcOffset>>

AsyncDeleteEntry ==
    /\ \E id \in Ids(eintraege) :
          LET r == handleDeleteEntry(eintraege, splits, id)
          IN  /\ eintraege' = r.eintraege
              /\ Suspend(Suspended("handleDeleteEntry", r.splits,
                                    editingEntryId = id))
    /\ Persist(<<KeyEintraege>>, {})
    /\ UNCHANGED <<splits, NEXT_ID, editVars, lastOp, probe, utcOffset>>

AsyncStartEditing ==
    /\ \E id \in Ids(eintraege) : StartEditingOf(id, "start", EarlyClock)
    /\ UNCHANGED <<ioVars, envVars>>

\* The write the oldest suspended handler waits for has settled.
ResumeAtSplits ==
    /\ pending # <<>>
    /\ Head(pending).stage = "splits"
    /\ splits' = updateSplits(Head(pending).newSplits)
    /\ pending' = Append(Tail(pending), [Head(pending) EXCEPT !.stage = "end"])
    /\ Persist(<<KeySplits>>, {})
    /\ UNCHANGED <<eintraege, NEXT_ID, editVars, lastOp, probe, utcOffset>>

ResumeAtEnd ==
    /\ pending # <<>>
    /\ Head(pending).stage = "end"
    /\ pending' = Tail(pending)
    /\ IF Head(pending).reset THEN resetEditState ELSE UNCHANGED editVars
    /\ UNCHANGED <<eintraege, splits, NEXT_ID, lastOp, probe, ioVars, utcOffset>>

AsyncNext ==
    \/ AsyncAddStart
    \/ AsyncAddEnde
    \/ AsyncSaveEdit
    \/ AsyncDeleteEntry
    \/ AsyncStartEditing
    \/ ResumeAtSplits
    \/ ResumeAtEnd

AsyncInit == Init /\ utcOffset = 0

SpecAsync == AsyncInit /\ [][AsyncNext]_vars

(***************************************************************************)
(* CalcSpec: the time arithmetic on its inputs                             *)
(***************************************************************************)
Totals == (0 - MaxBelow)..MaxTotal

CallMinutesToTime ==
    /\ probe.stage = "none"
    /\ \E total \in Totals :
          probe' = [NoProbe EXCEPT !.stage = "minutesToTime", !.base = total,
                                   !.out = minutesToTime(total)]
    /\ UNCHANGED <<eintraege, splits, NEXT_ID, editVars, lastOp, ioVars, envVars>>

CallGetDuration ==
    /\ probe.stage = "none"
    /\ \E start \in Grid \ { T2400 }, ende \in Grid \cup { Empty } :
          probe' = [NoProbe EXCEPT !.stage = "getDuration",
                                   !.base = [start |-> start, ende |-> ende],
                                   !.out = getDuration(start, ende)]
    /\ UNCHANGED <<eintraege, splits, NEXT_ID, editVars, lastOp, ioVars, envVars>>

\* The first onStep of a press on a SpoolButton.
CallAdjustTime ==
    /\ probe.stage = "none"
    /\ \E value \in Grid, delta \in {-Step, Step} :
          probe' = [NoProbe EXCEPT !.stage = "adjustTime",
                                   !.base = [value |-> value, delta |-> delta],
                                   !.out = adjustTime(value, delta)]
    /\ UNCHANGED <<eintraege, splits, NEXT_ID, editVars, lastOp, ioVars, envVars>>

\* The next onStep while the button is held.
CallAdjustTimeAgain ==
    /\ probe.stage = "adjustTime"
    /\ probe' = [probe EXCEPT !.out = adjustTime(probe.out, probe.base.delta)]
    /\ UNCHANGED <<eintraege, splits, NEXT_ID, editVars, lastOp, ioVars, envVars>>

CalcNext ==
    \/ CallMinutesToTime
    \/ CallGetDuration
    \/ CallAdjustTime
    \/ CallAdjustTimeAgain

CalcInit == Init /\ utcOffset = 0

CalcSpec == CalcInit /\ [][CalcNext]_vars

(***************************************************************************)
(* Properties of the splitter and the merger (PureSpec)                    *)
(***************************************************************************)
Fields(e) == <<e.date, e.start, e.ende>>

Crossing(c) ==
    /\ c.ende # Empty
    /\ SplitEndMin(c) < timeToMinutes(c.start)

WithinDay(c) ==
    \/ c.ende = Empty
    \/ /\ timeToMinutes(c.start) <= SplitEndMin(c)
       /\ SplitEndMin(c) <= 24 * 60

\* C3: a closed candidate whose end lies before its start is split into
\* exactly two entries and one pair: the first keeps date and start and ends
\* at "24:00", the second keeps the date (not advanced), starts at "00:00"
\* and keeps the end; the pair is <id1>-<id2> over two fresh ids distinct from
\* each other and from the candidate's id; the two spans meet at 1440/0 and
\* their durations add up to (1440 - startMinutes) + endMinutes.
C3_SplitOfCrossing ==
    (probe.stage = "split" /\ Crossing(probe.base)) =>
        LET c == probe.base
            res == probe.out
            id1 == res.entries[1].id
            id2 == res.entries[2].id
        IN  /\ Len(res.entries) = 2
            /\ Len(res.split) = 1
            /\ res.entries[1] = [id |-> id1, date |-> c.date,
                                 start |-> c.start, ende |-> T2400]
            /\ res.entries[2] = [id |-> id2, date |-> c.date,
                                 start |-> T0000, ende |-> c.ende]
            /\ res.split[1] = [id |-> <<id1, id2>>, firstId |-> id1, secondId |-> id2]
            /\ id1 > c.id /\ id2 > id1
            /\ id1 # id2 /\ id1 # c.id /\ id2 # c.id
            /\ NEXT_ID = id2
            /\ SplitEndMin(res.entries[1]) = 24 * 60
            /\ timeToMinutes(res.entries[2].start) = 0
            /\ getDurationMinutes(res.entries[1].start, res.entries[1].ende)
                 + getDurationMinutes(res.entries[2].start, res.entries[2].ende)
               = (24 * 60 - timeToMinutes(c.start)) + timeToMinutes(c.ende)

C3_Witness ==
    /\ probe.stage = "split"
    /\ probe.base.start = <<23, 50>>
    /\ probe.base.ende = <<0, 10>>
    /\ Len(probe.out.entries) = 2

\* C4: an open candidate, and a candidate with startMinutes <= endMinutes
\* <= 1440 ("24:00" being 1440, end = start included), comes back as the one
\* entry it is, with no pair and no id consumed.
C4_NoSplitWithinDay ==
    (probe.stage = "split" /\ WithinDay(probe.base)) =>
        /\ probe.out.entries = <<probe.base>>
        /\ probe.out.split = <<>>
        /\ probe.out.nextId = probe.base.id
        /\ NEXT_ID = probe.base.id

C4_Witness ==
    /\ probe.stage = "split"
    /\ probe.base.start = probe.base.ende
    /\ probe.out.entries = <<probe.base>>

\* C5: merging the two entries of a split candidate gives back the
\* candidate's date, start and end under a new id, and splitting the merged
\* entry gives two entries and a pair with the fields of the first split.
C5_RoundTrip ==
    /\ probe.stage \in {"merged", "again"} =>
        /\ Crossing(probe.base)
        /\ Fields(probe.merged) = Fields(probe.base)
        /\ probe.merged.id # probe.base.id
    /\ probe.stage = "again" =>
        /\ Len(probe.again.entries) = 2
        /\ Len(probe.again.split) = 1
        /\ \A i \in 1..2 : Fields(probe.again.entries[i]) = Fields(probe.out.entries[i])
        /\ probe.again.split[1].firstId = probe.again.entries[1].id
        /\ probe.again.split[1].secondId = probe.again.entries[2].id

C5_Witness ==
    /\ probe.stage = "again"
    /\ probe.base.start = <<23, 50>>
    /\ probe.base.ende = <<0, 10>>
    /\ Len(probe.again.entries) = 2

(***************************************************************************)
(* Properties of the handlers (Spec)                                       *)
(***************************************************************************)
PairIds(S) == { S[i].firstId : i \in 1..Len(S) } \cup { S[i].secondId : i \in 1..Len(S) }

Halves(sp) == { sp.firstId, sp.secondId }

\* Both halves of every pair are in the collection.
PairsIntact == \A sp \in Range(splits) : Halves(sp) \subseteq Ids(eintraege)

\* A pair stays in the index for as long as one of its halves exists.
HalvesStayLinked ==
    \A sp \in Range(splits) :
        (Halves(sp) \cap Ids(eintraege') # {}) => sp \in Range(splits')

\* Two entries created in one step are the two halves of one new pair.
NewHalvesLinked ==
    LET created == Ids(eintraege') \ Ids(eintraege)
    IN  Cardinality(created) = 2 =>
            \E sp \in Range(splits') \ Range(splits) : Halves(sp) = created

\* C1: from empty collections, whatever the handlers do, both ids of every
\* pair name entries of the collection, an entry created as a half of a pair
\* is referenced by that pair, and the pair stays for as long as a half
\* exists: no half and no pair is left dangling.
C1_NoDanglingHalf ==
    /\ []PairsIntact
    /\ [][HalvesStayLinked /\ NewHalvesLinked]_vars

C1_Witness ==
    /\ lastOp = "save:pair:split"
    /\ Len(splits) = 1
    /\ Len(eintraege) = 2

\* What a handler leaves after it replaced the entries `removed` by the
\* result of splitting the candidate b, nid being the counter before:
\* the removed entries and their pairs are gone, and either two new entries
\* b.start-24:00 and 00:00-b.ende on b's date with a new pair over them, or
\* one entry with b's fields and the id `single`, in no pair.
ReplacedBySplit(removed, b, single) ==
    LET added == Range(eintraege') \ Range(eintraege)
        newPairs == Range(splits') \ Range(splits)
        gone == { e.id : e \in removed }
    IN  /\ Range(eintraege') \cap removed = {}
        /\ \A e \in Range(eintraege) \ removed : e \in Range(eintraege')
        /\ \A sp \in Range(splits) :
               IF Halves(sp) \cap gone # {}
               THEN sp \notin Range(splits')
               ELSE sp \in Range(splits')
        /\ Len(eintraege') = Len(eintraege) - Cardinality(removed)
                               + (IF Crossing(b) THEN 2 ELSE 1)
        /\ IF Crossing(b)
           THEN \E f, g \in added :
                  /\ added = {f, g}
                  /\ f.id > NEXT_ID /\ g.id > f.id
                  /\ Fields(f) = <<b.date, b.start, T2400>>
                  /\ Fields(g) = <<b.date, T0000, b.ende>>
                  /\ newPairs = { [id |-> <<f.id, g.id>>, firstId |-> f.id,
                                   secondId |-> g.id] }
           ELSE /\ added = { [b EXCEPT !.id = single] }
                /\ newPairs = {}
                /\ single \notin PairIds(splits')

\* The candidate an edit builds from the entry (or merged pair) src.
Edited(src) ==
    IF editMode = "start" THEN [src EXCEPT !.start = editingValue]
    ELSE [src EXCEPT !.ende = editingValue]

EditIsValid ==
    /\ editingEntryId # NoId
    /\ editMode \in {"start", "ende"}
    /\ editingValue # Empty

IdsInOrder ==
    /\ Cardinality(Ids(eintraege)) = Len(eintraege)
    /\ \A id \in Ids(eintraege) \cup PairIds(splits) : id <= NEXT_ID /\ id > SeedId

C2_OnePairPerId ==
    /\ \A i, j \in 1..Len(splits) :
           i # j => Halves(splits[i]) \cap Halves(splits[j]) = {}
    /\ \A i, j \in 1..Len(splits) : splits[i].firstId # splits[j].secondId

C2_Witness ==
    /\ Len(splits) = 2
    /\ Len(eintraege) = 4
    /\ lastOp = "save:pair:split"

\* The minutes of an end time, the end of day counted as 1440.
EndMinutes(t) == IF t = T2400 THEN 1440 ELSE t[1] * 60 + t[2]

StartMinutes(t) == t[1] * 60 + t[2]

\* C11: every entry that has an end and is a half of no pair ends at or
\* after its start, with "24:00" counted as 1440 minutes.
C11_ClosedUnlinkedOrdered ==
    \A e \in Range(eintraege) :
        (e.ende # Empty /\ e.id \notin PairIds(splits)) =>
            EndMinutes(e.ende) >= StartMinutes(e.start)

C11_Witness ==
    /\ lastOp = "save:single:single"
    /\ \E e \in Range(eintraege) :
          /\ e.id \notin PairIds(splits)
          /\ e.start = <<23, 55>>
          /\ e.ende = <<23, 55>>

\* C12: for every pair, the first half ends at "24:00", the second starts
\* at "00:00", both halves are closed and carry the same stored date, and
\* the second ends before the minute the first starts at.
C12_PairShape ==
    \A sp \in Range(splits) :
        \E first, second \in Range(eintraege) :
            /\ first.id = sp.firstId
            /\ second.id = sp.secondId
            /\ first.ende = T2400
            /\ second.start = T0000
            /\ second.ende # Empty
            /\ first.date = second.date
            /\ EndMinutes(second.ende) < StartMinutes(first.start)

C12_Witness ==
    \E sp \in Range(splits) :
        /\ FindEntry(eintraege, sp.firstId)[1].start = <<23, 55>>
        /\ FindEntry(eintraege, sp.secondId)[1].ende = T0000
        /\ FindEntry(eintraege, sp.secondId)[1].start = T0000

\* C13: the adjusted date of an entry in no pair and of the first half of
\* a pair is its stored date; the adjusted date of the second half of a
\* pair is the date of the pair's first entry plus exactly two days.
C13_AdjustedDate ==
    \A e \in Range(eintraege) :
        getAdjustedDateForEntry(e, splits, utcOffset) =
            IF \E sp \in Range(splits) : sp.secondId = e.id
            THEN LET sp == CHOOSE x \in Range(splits) : x.secondId = e.id
                 IN  FindEntry(eintraege, sp.firstId)[1].date + 2
            ELSE e.date

\* C14: getDuration yields "-" when the end is absent and when end - start
\* is not positive (end = start included), else hours and minutes of
\* end - start, the end "24:00" counting as 1440; it is never negative.
C14_Duration ==
    probe.stage = "getDuration" =>
        LET start == probe.base.start
            ende == probe.base.ende
        IN  IF ende = Empty THEN probe.out = Dash
            ELSE LET diff == EndMinutes(ende) - StartMinutes(start)
                 IN  IF diff <= 0 THEN probe.out = Dash
                     ELSE /\ probe.out # Dash
                          /\ probe.out[1] * 60 + probe.out[2] = diff
                          /\ probe.out[1] >= 0
                          /\ probe.out[2] \in 0..59

C14_Witness ==
    /\ probe.stage = "getDuration"
    /\ probe.base = [start |-> <<23, 0>>, ende |-> T2400]
    /\ probe.out = <<1, 0>>

Abs(x) == IF x < 0 THEN -x ELSE x

\* C15: minutesToTime of any integer total is a time of 0..1435 minutes on
\* the 5-minute grid, the multiple of 5 nearest to the total clamped to
\* [0, 1435]; and repeated +5 / -5 steps from any time, "24:00" included,
\* move by 5 minutes until they stay at "23:55" or "00:00", never reaching
\* "24:00".
C15_ClampAndSaturate ==
    /\ probe.stage = "minutesToTime" =>
          LET clamped == IF probe.base < 0 THEN 0
                         ELSE IF probe.base > 1435 THEN 1435 ELSE probe.base
              m == StartMinutes(probe.out)
          IN  /\ m \in 0..1435
              /\ m % 5 = 0
              /\ probe.out[2] \in 0..59
              /\ 2 * Abs(m - clamped) < 5
    /\ probe.stage = "adjustTime" =>
          LET m == StartMinutes(probe.out)
              from == StartMinutes(probe.base.value)
          IN  /\ probe.out # T2400
              /\ m \in 0..1435
              /\ m % 5 = 0
              /\ IF probe.base.delta > 0 THEN m > from \/ m = 1435
                 ELSE m < from \/ m = 0
              /\ adjustTime(probe.out, probe.base.delta) =
                    IF probe.base.delta > 0
                    THEN (IF m = 1435 THEN <<23, 55>> ELSE <<(m + 5) \div 60, (m + 5) % 60>>)
                    ELSE (IF m = 0 THEN T0000 ELSE <<(m - 5) \div 60, (m - 5) % 60>>)

C15_Witness ==
    /\ probe.stage = "adjustTime"
    /\ probe.base = [value |-> T2400, delta |-> Step]
    /\ probe.out = <<23, 55>>

DataUntouched ==
    /\ eintraege' = eintraege
    /\ splits' = splits
    /\ NEXT_ID' = NEXT_ID
    /\ persisted' = persisted
    /\ writes' = <<>>

\* C16: a save with an empty value in the field being edited (start or
\* end) stops before any change: entries, split index, id counter and the
\* stored copies stay as they are and no write is issued.
C16_EmptyValueAborts ==
    [][(SaveEdit /\ editMode \in {"start", "ende"} /\ editingValue = Empty)
          => DataUntouched]_vars

C16_Witness ==
    /\ lastOp = "save:invalid"
    /\ editingEntryId \in Ids(eintraege)
    /\ editMode = "ende"
    /\ editingValue = Empty
    /\ Len(splits) = 1

\* C17: a save whose entry is no longer in the collection changes no data:
\* entries and split index stay, no id is consumed, no write is issued.
C17_MissingIdIsNoOp ==
    [][(SaveEdit /\ EditIsValid /\ editingEntryId \notin Ids(eintraege))
          => DataUntouched]_vars

C17_Witness ==
    /\ lastOp = "save:missing"
    /\ editingEntryId = NoId
    /\ eintraege = <<>>
    /\ NEXT_ID = SeedId + 3

BetweenItsUpdates ==
    \E i \in 1..Len(pending) : pending[i].stage = "splits"

\* C18: operations never interleave.  While an operation is between its
\* update of the entries and its update of the split index no other
\* operation starts or changes the collections; an operation hands to the
\* split index a value computed from the split index as it is then (no
\* stale snapshot); and the pair an operation recorded is not overwritten by
\* another operation's update (no lost update).
C18_NoInterleaving ==
    [][/\ BetweenItsUpdates =>
             /\ Len(pending') <= Len(pending)
             /\ eintraege' = eintraege
             /\ NEXT_ID' = NEXT_ID
       /\ ResumeAtSplits =>
             /\ Head(pending).seen = splits
             /\ \A sp \in Range(splits) :
                    Halves(sp) \subseteq Ids(eintraege) => sp \in Range(splits')]_vars

SomeWriteFailed(w) == \E i \in 1..Len(w) : ~w[i].ok

\* The step of a handler that ran to its end, as when its writes succeed.
RanToItsEnd ==
    \/ \E clock \in Clock : AddStartAt(clock)
    \/ \E clock \in Clock : AddEndeAt(clock)
    \/ SaveEdit
    \/ \E id \in Ids(eintraege) : DeleteOf(id)

\* C19: a storage write that fails is swallowed: the handler that issued
\* it still runs to its end with its full effect on entries, split index,
\* id counter and edit form, nothing is rolled back and no error state is
\* reached; only the stored copy keeps its old value under the key whose
\* write failed.
C19_WriteFailureSwallowed ==
    [][(eintraege' # eintraege /\ SomeWriteFailed(writes')) =>
          /\ RanToItsEnd
          /\ \A i \in 1..Len(writes') :
                IF writes'[i].ok
                THEN persisted'[writes'[i].key] =
                        (IF writes'[i].key = KeyEintraege THEN eintraege' ELSE splits')
                ELSE persisted'[writes'[i].key] = persisted[writes'[i].key]]_vars

C19_Witness ==
    /\ lastOp = "addEnde:split"
    /\ writes = << [key |-> KeyEintraege, ok |-> FALSE],
                   [key |-> KeySplits, ok |-> FALSE] >>
    /\ Len(splits) = 1
    /\ persisted.splits = <<>>
    /\ Len(persisted.eintraege) = 1

OpenEntries(E) == { e \in Range(E) : e.ende = Empty }

AtRest == pending = <<>>

\* C1 (handlers as async functions): whenever no handler is suspended,
\* every pair of the split index has both its halves in the entry
\* collection: no operation leaves a dangling pair.
C1_NoDanglingPairAtRest == AtRest => PairsIntact

\* C12 (handlers as async functions): whenever no handler is suspended,
\* every pair names two closed entries of the same date, the first ending
\* at 24:00, the second starting at 00:00 and ending before the first
\* starts.
C12_PairShapeAtRest ==
    AtRest =>
        \A sp \in Range(splits) :
            /\ Halves(sp) \subseteq Ids(eintraege)
            /\ C12_PairShape

C22_FireAndForget ==
    [][/\ eintraege' # eintraege => writes' # <<>>
       /\ Len(pending') > Len(pending) =>
              splits' = pending'[Len(pending')].newSplits]_vars

\* The edit form is on an entry that a pair names while the pair's other
\* half is not in the collection.
OtherHalfMissing ==
    /\ EditIsValid
    /\ editingEntryId \in Ids(eintraege)
    /\ \E sp \in Range(splits) :
          /\ editingEntryId \in Halves(sp)
          /\ ~(Halves(sp) \subseteq Ids(eintraege))

Idle == editMode = "none"

IdleAfter == editMode' = "none" /\ editingEntryId' = NoId /\ editingValue' = Empty

DataKept == UNCHANGED <<eintraege, splits, NEXT_ID>>

\* The form is put on a cell of an entry of the collection, its value the
\* entry's field, or the rounded current time when the entry has none.
FormSeeded ==
    /\ editingEntryId' \in Ids(eintraege)
    /\ editMode' \in {"start", "ende"}
    /\ LET e == FindEntry(eintraege, editingEntryId')[1]
           field == IF editMode' = "start" THEN e.start ELSE e.ende
       IN  IF field # Empty THEN editingValue' = field
           ELSE \E clock \in Clock : editingValue' = getRoundedNow(clock)
    /\ DataKept

\* The spool buttons move the pending value and nothing else.
FormSpooled ==
    /\ ~Idle
    /\ editingEntryId' = editingEntryId /\ editMode' = editMode
    /\ \E delta \in {-Step, Step} :
          editingValue' = Hold(editingValue, delta)
    /\ DataKept

FormSaved == ~Idle /\ SaveEdit /\ IdleAfter

FormCancelled == ~Idle /\ IdleAfter /\ DataKept

\* The entry under edit is deleted.
FormEntryDeleted == ~Idle /\ IdleAfter /\ DeleteOf(editingEntryId)

\* C24: the edit form is Idle, EditingStart or EditingEnd.  An editing
\* state is entered only from Idle, with the pending value seeded from the
\* entry's field (the rounded current time when it has none), and is left
\* only by save, which runs the edit and returns to Idle, or by cancel,
\* which returns to Idle with entries and split index unchanged and the
\* pending value discarded.
C24_OnlyIdleEditingIdle ==
    [][editVars' # editVars =>
          \/ Idle /\ FormSeeded
          \/ FormSpooled
          \/ FormSaved
          \/ FormCancelled]_vars

\* C24, amended: an editing state is entered from Idle or from an editing
\* state (a press on a cell while the form is open puts the form on that
\* cell), seeded in both cases from the entry's field or the rounded
\* current time; it is left to Idle by save, by cancel (nothing changed,
\* pending value discarded), or by the deletion of the entry under edit.
\* Idle is the state with no entry id and no pending value.
C24_EditStates ==
    /\ [](Idle <=> editingEntryId = NoId)
    /\ [](Idle <=> editingValue = Empty)
    /\ [][editVars' # editVars =>
            \/ FormSeeded
            \/ FormSpooled
            \/ FormSaved
            \/ FormCancelled
            \/ FormEntryDeleted]_vars

\* The form is open on the end of a first half: 24:00 is no value the
\* spool buttons produce, the form took it from the entry.
C24_Witness ==
    /\ editMode = "ende"
    /\ editingValue = T2400
    /\ \E e \in Range(eintraege) : e.id = editingEntryId /\ e.ende = T2400

\* The ids of the interval the entry id stands for: id itself and, when a
\* pair names it, the pair's two halves.
Interval(id) ==
    {id} \cup UNION { Halves(sp) : sp \in { x \in Range(splits) : id \in Halves(x) } }

\* Outside the interval of id nothing changed: the other entries are there
\* with their id, date, start and end, the pairs that do not name id are
\* there, and what is new carries a new id (or id itself, closed in place).
FrameKept(id) ==
    /\ \A e \in Range(eintraege) : e.id \notin Interval(id) => e \in Range(eintraege')
    /\ \A sp \in Range(splits) : id \notin Halves(sp) => sp \in Range(splits')
    /\ \A x \in Range(eintraege') \ Range(eintraege) : x.id > NEXT_ID \/ x.id = id
    /\ \A sp \in Range(splits') \ Range(splits) :
          sp.firstId > NEXT_ID /\ sp.secondId > NEXT_ID

LogicalIntervals(E, S) ==
    { Fields(e) : e \in { x \in Range(E) : FindSplit(S, x.id) = <<>> } }
    \cup
    { <<FindEntry(E, sp.firstId)[1].date, FindEntry(E, sp.firstId)[1].start,
        FindEntry(E, sp.secondId)[1].ende>> :
        sp \in { x \in Range(S) : Halves(x) \subseteq Ids(E) } }

\* The form holds, for a field the entry has, the value the entry has in it.
ValueAsSeeded ==
    /\ EditIsValid
    /\ \E e \in Range(eintraege) :
          /\ e.id = editingEntryId
          /\ editingValue = (IF editMode = "start" THEN e.start ELSE e.ende)

\* C26: saving the form with the value it was seeded with, on an entry in
\* no pair or on either half of a pair, for the start or the end the entry
\* has, leaves the intervals as they were; ids alone change.
C26_UnchangedSaveIsIdentity ==
    [][(SaveEdit /\ ValueAsSeeded) =>
          LogicalIntervals(eintraege', splits') = LogicalIntervals(eintraege, splits)]_vars

\* The open entry with the smallest id.
OldestOpen(E) ==
    CHOOSE e \in OpenEntries(E) : \A o \in OpenEntries(E) : e.id <= o.id

\* C27: with several entries open, 'Ende' closes one of them, the open
\* entry with the smallest id, and leaves every other open entry open and
\* as it is; with no entry open it changes nothing and writes nothing.
C27_EndeClosesOldestOpen ==
    [][\A clock \in Clock :
         AddEndeAt(clock) =>
            IF OpenEntries(eintraege) = {}
            THEN DataKept /\ writes' = <<>>
            ELSE LET target == OldestOpen(eintraege)
                 IN  /\ target \notin Range(eintraege')
                     /\ OpenEntries(eintraege') = OpenEntries(eintraege) \ {target}
                     /\ \E x \in Range(eintraege') \ Range(eintraege) :
                           /\ x.date = target.date
                           /\ x.start = target.start
                           /\ x.ende # Empty
                           /\ x.id = target.id \/ x.id > NEXT_ID]_vars

\* Of two open entries the one with the smaller id was closed; the other
\* is still open.
C27_Witness ==
    /\ lastOp = "addEnde:single"
    /\ Len(eintraege) = 2
    /\ \E o \in OpenEntries(eintraege) :
          \E c \in Range(eintraege) : c.ende # Empty /\ c.id < o.id

====
